---- MODULE Spec2Model ----
(***************************************************************************)
(* Model of the multi-file edit engine of vibe/core/tools/builtins/        *)
(* multi_edit.py: MatchingEngine, SafetyChecker, EditTransaction and the   *)
(* orchestrator MultiEdit.run / MultiEdit._process_file.                   *)
(*                                                                         *)
(* Text is a sequence of one-character strings.  Confidences and           *)
(* similarity scores are integers in hundredths (1.0 is 100).  A Python    *)
(* dict is a record [keys, vals]: keys in insertion order, vals the map.   *)
(* An optional string that the code only tests for truthiness is the       *)
(* empty text when absent; an optional integer is <<>> or <<n>>.           *)
(*                                                                         *)
(* A behaviour is one call of MultiEdit.run, in one environment and with   *)
(* one value of its arguments, or one direct call of MatchingEngine.match. *)
(* Writes of files may raise; reads raise for the files of `unreadable`.   *)
(***************************************************************************)
EXTENDS Integers, Sequences, FiniteSets, TLC

(***************************************************************************)
(* Python str primitives used by the engine.                               *)
(***************************************************************************)
NL == "\n"
SP == " "

Min(a, b) == IF a <= b THEN a ELSE b
Max(a, b) == IF a >= b THEN a ELSE b

\* s[a:b] for a >= 0, b >= 0 (Python clamps the end to len(s))
Slice(s, a, b) == SubSeq(s, a + 1, Min(b, Len(s)))

\* s[a:]
SliceFrom(s, a) == SubSeq(s, a + 1, Len(s))

\* s.find(sub, from): the lowest index >= from where sub occurs, else -1
Find(s, sub, from) ==
    LET hits == {i \in from..(Len(s) - Len(sub)) : Slice(s, i, i + Len(sub)) = sub}
    IN  IF hits = {} THEN -1 ELSE CHOOSE i \in hits : \A j \in hits : i <= j

\* str.isspace for one character of the alphabet
IsSpace(c) == c \in {SP, NL}

\* s.strip()
Strip(s) ==
    LET ink == {i \in 1..Len(s) : ~IsSpace(s[i])}
    IN  IF ink = {} THEN <<>>
        ELSE SubSeq(s, CHOOSE i \in ink : \A j \in ink : i <= j,
                       CHOOSE i \in ink : \A j \in ink : i >= j)

\* s.splitlines(keepends=True)
RECURSIVE Splitlines(_)
Splitlines(s) ==
    IF s = <<>> THEN <<>>
    ELSE LET nl == Find(s, <<NL>>, 0)
         IN  IF nl = -1 THEN <<s>>
             ELSE <<Slice(s, 0, nl + 1)>> \o Splitlines(SliceFrom(s, nl + 1))

\* s.splitlines(): the same lines without their line ends
SplitlinesBare(s) ==
    LET ls == Splitlines(s)
    IN  [k \in 1..Len(ls) |->
            IF ls[k][Len(ls[k])] = NL THEN Slice(ls[k], 0, Len(ls[k]) - 1) ELSE ls[k]]

\* sum(len(l) for l in lines[:n])
RECURSIVE SumLen(_, _)
SumLen(lines, n) ==
    IF n <= 0 \/ lines = <<>> THEN 0
    ELSE Len(Head(lines)) + SumLen(Tail(lines), n - 1)

\* ''.join(lines)
RECURSIVE Join(_)
Join(lines) == IF lines = <<>> THEN <<>> ELSE Head(lines) \o Join(Tail(lines))

(***************************************************************************)
(* MatchTier, EditBlock, MatchResult.                                      *)
(***************************************************************************)
EXACT      == "exact"
NORMALIZED == "normalized"
ANCHORED   == "anchored"
LINE_RANGE == "line_range"
FUZZY      == "fuzzy"
FAILED     == "failed"

NoPos  == -1      \* match_start / match_end = None
NoText == <<>>    \* an absent optional text
NoInt  == <<>>    \* an absent optional integer
NoMsg  == ""      \* warning = None

EditBlock(search, replace, context_before, context_after, line_start, line_end) ==
    [search |-> search, replace |-> replace,
     context_before |-> context_before, context_after |-> context_after,
     line_start |-> line_start, line_end |-> line_end]

MatchResult(success, tier, confidence, match_start, match_end, warning, suggestion) ==
    [success |-> success, tier |-> tier, confidence |-> confidence,
     match_start |-> match_start, match_end |-> match_end,
     warning |-> warning, suggestion |-> suggestion]

NoMatch(tier, warning) == MatchResult(FALSE, tier, 0, NoPos, NoPos, warning, NoText)

(***************************************************************************)
(* MatchingEngine: five tiers tried in order, the first success returned.  *)
(***************************************************************************)
CONF_EXACT      == 100
CONF_NORMALIZED == 95
CONF_ANCHORED   == 90
CONF_LINE_RANGE == 85
FUZZY_FLOOR     == 70     \* best_score >= 0.70
FUZZY_MIN_SPAN  == 10     \* min(search_len, 10)
FUZZY_WINDOW    == 50     \* content[i:i + search_len + 50]
DEFAULT_MIN_CONFIDENCE == 85    \* match(..., min_confidence: float = 0.85)

\* MatchContext: the content and its lines, split once per match
MatchContext(content, min_confidence) ==
    [content |-> content, lines |-> Splitlines(content), min_confidence |-> min_confidence]

\* the result of tier 1 for idx = content.find(search)
Tier1Found(idx, edit) ==
    IF idx # -1
    THEN MatchResult(TRUE, EXACT, CONF_EXACT, idx, idx + Len(edit.search), NoMsg, NoText)
    ELSE NoMatch(EXACT, NoMsg)

\* tier 1 taking the last occurrence of the search text (C30 fails for it)
Tier1ExactLast(ctx, edit) ==
    LET hits == {n \in 0..(Len(ctx.content) - Len(edit.search)) :
                    Slice(ctx.content, n, n + Len(edit.search)) = edit.search}
    IN  Tier1Found(IF hits = {} THEN -1 ELSE CHOOSE n \in hits : \A j \in hits : n >= j,
                   edit)

Tier1Exact(ctx, edit) == Tier1Found(Find(ctx.content, edit.search, 0), edit)

\* the inner loop of tier 2: every stripped search line equals the stripped
\* content line at the same offset from line i (0-based)
Tier2LinesMatch(lines, search_stripped, i) ==
    \A j \in 0..(Len(search_stripped) - 1) :
        /\ i + j < Len(lines)
        /\ Strip(lines[i + j + 1]) = search_stripped[j + 1]

\* tier 2 returning the last of the line indexes where the loop matches (C16
\* fails for it)
Tier2FoundLast(lines, search_lines, hits) ==
    IF search_lines # <<>> /\ hits # {}
    THEN MatchResult(TRUE, NORMALIZED, CONF_NORMALIZED,
                     SumLen(lines, CHOOSE h \in hits : \A g \in hits : h >= g),
                     SumLen(lines, (CHOOSE h \in hits : \A g \in hits : h >= g)
                                       + Len(search_lines)),
                     "Matched via whitespace normalization", NoText)
    ELSE NoMatch(NORMALIZED, NoMsg)

\* the result of tier 2 for the set `hits` of line indexes where the loop matches
Tier2Found(lines, search_lines, hits) ==
    IF search_lines # <<>> /\ hits # {}
    THEN MatchResult(TRUE, NORMALIZED, CONF_NORMALIZED,
                     SumLen(lines, CHOOSE h \in hits : \A g \in hits : h <= g),
                     SumLen(lines, (CHOOSE h \in hits : \A g \in hits : h <= g)
                                       + Len(search_lines)),
                     "Matched via whitespace normalization", NoText)
    ELSE NoMatch(NORMALIZED, NoMsg)

Tier2Search(lines, search_lines, search_stripped) ==
    Tier2Found(lines, search_lines,
               {i \in 0..(Len(lines) - 1) : Tier2LinesMatch(lines, search_stripped, i)})

StripEach(lines) == [n \in 1..Len(lines) |-> Strip(lines[n])]

Tier2Lines(lines, search_lines) == Tier2Search(lines, search_lines, StripEach(search_lines))

Tier2Normalized(ctx, edit) == Tier2Lines(ctx.lines, SplitlinesBare(edit.search))

\* the longest run of whitespace starting at index pos (0-based)
RECURSIVE SpaceRun(_, _)
SpaceRun(content, pos) ==
    IF pos < Len(content) /\ IsSpace(content[pos + 1])
    THEN 1 + SpaceRun(content, pos + 1) ELSE 0

\* the greatest member of a nonempty set of integers
MaxOf(S) == CHOOSE m \in S : \A n \in S : m >= n
\* the least member of a nonempty set of integers
MinOf(S) == CHOOSE m \in S : \A n \in S : m <= n

\* re.match of the escaped literals `parts` joined by \s* at index pos: the
\* end of the match the backtracking engine returns (\s* is greedy), or -1
RECURSIVE RegexEnd(_, _, _)
RECURSIVE RegexRest(_, _, _, _)
RegexEnd(parts, content, pos) ==
    IF Slice(content, pos, pos + Len(Head(parts))) # Head(parts)
       \/ pos + Len(Head(parts)) > Len(content) THEN -1
    ELSE IF Len(parts) = 1 THEN pos + Len(Head(parts))
    ELSE RegexRest(Tail(parts), content, pos + Len(Head(parts)),
                   {n \in 0..SpaceRun(content, pos + Len(Head(parts))) :
                       RegexEnd(Tail(parts), content, pos + Len(Head(parts)) + n) # -1})
\* the end for the longest of the whitespace runs `ok` that let the rest match
RegexRest(parts, content, p, ok) ==
    IF ok = {} THEN -1 ELSE RegexEnd(parts, content, p + MaxOf(ok))

\* the pattern of tier 3, as its literals
AnchorParts(edit) ==
    (IF edit.context_before # NoText THEN <<Strip(edit.context_before)>> ELSE <<>>)
    \o <<edit.search>>
    \o (IF edit.context_after # NoText THEN <<Strip(edit.context_after)>> ELSE <<>>)

\* the result of tier 3 for a match of the pattern over [mstart, mend)
Tier3Matched(content, edit, search_start, mend) ==
    IF search_start # -1 /\ search_start <= mend
    THEN MatchResult(TRUE, ANCHORED, CONF_ANCHORED, search_start,
                     search_start + Len(edit.search),
                     "Matched via context anchoring", NoText)
    ELSE NoMatch(ANCHORED, NoMsg)

Tier3At(content, edit, parts, mstart) ==
    Tier3Matched(content, edit, Find(content, edit.search, mstart),
                 RegexEnd(parts, content, mstart))

\* re.search: the leftmost of the indexes `starts` where the pattern matches
Tier3Search(content, edit, parts, starts) ==
    IF starts = {} THEN NoMatch(ANCHORED, NoMsg)
    ELSE Tier3At(content, edit, parts, MinOf(starts))

Tier3Parts(content, edit, parts) ==
    Tier3Search(content, edit, parts,
                {n \in 0..Len(content) : RegexEnd(parts, content, n) # -1})

Tier3Anchored(ctx, edit) == Tier3Parts(ctx.content, edit, AnchorParts(edit))

\* `x or d` for an optional integer: d when x is None or 0
OrInt(x, d) == IF x = NoInt \/ x = <<0>> THEN d ELSE x[1]

\* lines[a:b] for a >= 0 (a negative b counts from the end)
LineSlice(lines, a, b) ==
    SubSeq(lines, a + 1, IF b < 0 THEN Len(lines) + b ELSE Min(b, Len(lines)))

\* the result of tier 4 for idx = range_content.find(search)
Tier4Found(edit, start_line, end_line, offset, idx) ==
    IF idx # -1
    THEN MatchResult(TRUE, LINE_RANGE, CONF_LINE_RANGE, offset + idx,
                     offset + idx + Len(edit.search),
                     "Matched in line range " \o ToString(start_line + 1)
                         \o "-" \o ToString(end_line), NoText)
    ELSE NoMatch(LINE_RANGE, NoMsg)

Tier4Range(lines, edit, start_line, end_line) ==
    IF start_line < 0 \/ end_line > Len(lines)
    THEN NoMatch(LINE_RANGE, "Line range " \o ToString(start_line + 1) \o "-"
                                 \o ToString(end_line) \o " out of bounds")
    ELSE Tier4Found(edit, start_line, end_line, SumLen(lines, start_line),
                    Find(Join(LineSlice(lines, start_line, end_line)), edit.search, 0))

Tier4LineRange(ctx, edit) ==
    Tier4Range(ctx.lines, edit, OrInt(edit.line_start, 1) - 1,
               OrInt(edit.line_end, Len(ctx.lines)))

\* length of a longest common subsequence
RECURSIVE Lcs(_, _)
Lcs(s, t) ==
    IF s = <<>> \/ t = <<>> THEN 0
    ELSE IF Head(s) = Head(t) THEN 1 + Lcs(Tail(s), Tail(t))
    ELSE Max(Lcs(Tail(s), t), Lcs(s, Tail(t)))

\* rapidfuzz fuzz.ratio(s, t) / 100 as the fraction num/den: the normalized
\* Indel similarity 2*LCS / (len(s) + len(t)), 1 for two empty texts
RatioNum(s, t) == IF Len(s) + Len(t) = 0 THEN 1 ELSE 2 * Lcs(s, t)
RatioDen(s, t) == IF Len(s) + Len(t) = 0 THEN 1 ELSE Len(s) + Len(t)

\* the window text scored at index n
FuzzyWindow(content, search, n) ==
    Slice(Slice(content, n, n + Len(search) + FUZZY_WINDOW), 0, Len(search))

\* tier 5 reporting success for a window at or above the floor (C10 fails
\* for it)
Tier5BestApplied(best_pos, best_match, num, den) ==
    IF 100 * num >= FUZZY_FLOOR * den
    THEN MatchResult(TRUE, FUZZY, (100 * num) \div den, best_pos,
                     best_pos + Len(best_match),
                     "Fuzzy match found (" \o ToString((100 * num) \div den)
                         \o "% confidence) - manual review required",
                     best_match)
    ELSE NoMatch(FAILED, "No match found")

\* the result of tier 5 for the best window, scored num/den
Tier5Best(best_pos, best_match, num, den) ==
    IF 100 * num >= FUZZY_FLOOR * den
    THEN MatchResult(FALSE, FUZZY, (100 * num) \div den, best_pos,
                     best_pos + Len(best_match),
                     "Fuzzy match found (" \o ToString((100 * num) \div den)
                         \o "% confidence) - manual review required",
                     best_match)
    ELSE NoMatch(FAILED, "No match found")

Tier5At(content, search, best_pos) ==
    Tier5Best(best_pos, FuzzyWindow(content, search, best_pos),
              RatioNum(search, FuzzyWindow(content, search, best_pos)),
              RatioDen(search, FuzzyWindow(content, search, best_pos)))

\* the loop keeps the first index whose score is strictly the greatest, and
\* nothing while every score is 0: `best` are the indexes of greatest score
Tier5Scan(content, search, best) ==
    IF best = {} THEN NoMatch(FAILED, "No match found")
    ELSE Tier5At(content, search, MinOf(best))

\* whether the window at index n scores above 0 and no window of idxs scores more
FuzzyBest(content, search, idxs, n) ==
    /\ RatioNum(search, FuzzyWindow(content, search, n)) > 0
    /\ \A j \in idxs :
           RatioNum(search, FuzzyWindow(content, search, j))
               * RatioDen(search, FuzzyWindow(content, search, n))
           <= RatioNum(search, FuzzyWindow(content, search, n))
               * RatioDen(search, FuzzyWindow(content, search, j))

Tier5Windows(content, search, idxs) ==
    Tier5Scan(content, search, {n \in idxs : FuzzyBest(content, search, idxs, n)})

Tier5Fuzzy(ctx, edit, has_fuzz) ==
    IF ~has_fuzz
    THEN NoMatch(FUZZY, "Fuzzy matching unavailable (rapidfuzz not installed)")
    ELSE Tier5Windows(ctx.content, edit.search,
                      0..(Len(ctx.content) - Min(Len(edit.search), FUZZY_MIN_SPAN) - 1))

\* match with tier 2 tried before tier 1 (C15 fails for it)
MatchInNormalizedFirst(ctx, edit, has_fuzz) ==
    IF Tier2Normalized(ctx, edit).success THEN Tier2Normalized(ctx, edit)
    ELSE Tier1Exact(ctx, edit)

\* match with tier 4 tried first when line_start is given (C25 fails for it)
MatchInLineRangeFirst(ctx, edit, has_fuzz) ==
    IF edit.line_start # NoInt /\ Tier4LineRange(ctx, edit).success
    THEN Tier4LineRange(ctx, edit)
    ELSE IF Tier1Exact(ctx, edit).success THEN Tier1Exact(ctx, edit)
    ELSE IF Tier2Normalized(ctx, edit).success THEN Tier2Normalized(ctx, edit)
    ELSE Tier5Fuzzy(ctx, edit, has_fuzz)

\* `result` when it succeeded, else what the later tiers give
OrElse(result, later) == IF result.success THEN result ELSE later

\* MatchingEngine.match for the context ctx
MatchIn(ctx, edit, has_fuzz) ==
    OrElse(Tier1Exact(ctx, edit),
    OrElse(Tier2Normalized(ctx, edit),
    OrElse(IF edit.context_before # NoText \/ edit.context_after # NoText
               THEN Tier3Anchored(ctx, edit) ELSE NoMatch(ANCHORED, NoMsg),
    OrElse(IF edit.line_start # NoInt
               THEN Tier4LineRange(ctx, edit) ELSE NoMatch(LINE_RANGE, NoMsg),
           Tier5Fuzzy(ctx, edit, has_fuzz)))))

Match(content, edit, min_confidence, has_fuzz) ==
    MatchIn(MatchContext(content, min_confidence), edit, has_fuzz)

(***************************************************************************)
(* Python dict (insertion ordered) and the filesystem.                     *)
(***************************************************************************)
EmptyDict == [keys |-> <<>>, vals |-> <<>>]
Has(d, k) == k \in DOMAIN d.vals
Put(d, k, v) ==
    [keys |-> IF Has(d, k) THEN d.keys ELSE Append(d.keys, k),
     vals |-> [x \in (DOMAIN d.vals) \cup {k} |-> IF x = k THEN v ELSE d.vals[x]]]

\* the text of a sequence of characters as one string
RECURSIVE Str(_)
Str(text) == IF text = <<>> THEN "" ELSE Head(text) \o Str(Tail(text))

\* separator.join(parts) for strings
RECURSIVE JoinStr(_, _)
JoinStr(parts, sep) ==
    IF parts = <<>> THEN ""
    ELSE IF Len(parts) = 1 THEN parts[1]
    ELSE parts[1] \o sep \o JoinStr(Tail(parts), sep)

\* the disk maps each existing file to its text
Exists(fs, f) == f \in DOMAIN fs
WriteText(fs, f, text) == [x \in (DOMAIN fs) \cup {f} |-> IF x = f THEN text ELSE fs[x]]

\* a write that raises: the open failed and the file is as it was, or the
\* file was truncated and only a proper prefix of the text reached it
FailedWrites(fs, f, text) ==
    {fs} \cup {WriteText(fs, f, SubSeq(text, 1, n)) : n \in 0..(Len(text) - 1)}

Workdir == "/w"
\* workdir / path, resolved (the paths of the model are relative)
Resolve(path) == Workdir \o "/" \o path
\* path.with_suffix(path.suffix + '.bak')
BackupPath(path) == path \o ".bak"

(***************************************************************************)
(* SafetyChecker                                                           *)
(***************************************************************************)
MERGE_HEAD   == "MERGE_HEAD"
REBASE_MERGE == "rebase-merge"
REBASE_APPLY == "rebase-apply"
INDEX_LOCK   == "index.lock"
Markers == {MERGE_HEAD, REBASE_MERGE, REBASE_APPLY, INDEX_LOCK}

MERGE_ERROR  == "Git merge in progress. Resolve before editing."
REBASE_ERROR == "Git rebase in progress. Complete or abort first."
LOCK_ERROR   == "Git index is locked. Another git process may be running."

\* check_all without the test of index.lock (C6 fails for it)
CheckAllNoLock(present) ==
    (IF MERGE_HEAD \in present THEN <<MERGE_ERROR>> ELSE <<>>)
    \o (IF REBASE_MERGE \in present \/ REBASE_APPLY \in present
        THEN <<REBASE_ERROR>> ELSE <<>>)

\* check_all returning at the first condition that holds (C24 fails for it)
CheckAllFirstOnly(present) ==
    IF MERGE_HEAD \in present THEN <<MERGE_ERROR>>
    ELSE IF REBASE_MERGE \in present \/ REBASE_APPLY \in present THEN <<REBASE_ERROR>>
    ELSE IF INDEX_LOCK \in present THEN <<LOCK_ERROR>>
    ELSE <<>>

\* the error list of check_all for the markers present under workdir/.git
CheckAll(present) ==
    (IF MERGE_HEAD \in present THEN <<MERGE_ERROR>> ELSE <<>>)
    \o (IF REBASE_MERGE \in present \/ REBASE_APPLY \in present
        THEN <<REBASE_ERROR>> ELSE <<>>)
    \o (IF INDEX_LOCK \in present THEN <<LOCK_ERROR>> ELSE <<>>)

(***************************************************************************)
(* DiffGenerator: difflib.unified_diff is outside the repository; the      *)
(* model keeps the file headers and the changed lines between the common   *)
(* leading and trailing lines, and is empty when the line lists are equal. *)
(***************************************************************************)
RECURSIVE CommonPrefix(_, _)
CommonPrefix(a, b) ==
    IF a = <<>> \/ b = <<>> \/ Head(a) # Head(b) THEN 0
    ELSE 1 + CommonPrefix(Tail(a), Tail(b))

RECURSIVE CommonSuffix(_, _)
CommonSuffix(a, b) ==
    IF a = <<>> \/ b = <<>> \/ a[Len(a)] # b[Len(b)] THEN 0
    ELSE 1 + CommonSuffix(SubSeq(a, 1, Len(a) - 1), SubSeq(b, 1, Len(b) - 1))

NoDiff == <<>>
DiffGenerate(original, modified, path) ==
    LET orig_lines == Splitlines(original)
        mod_lines  == Splitlines(modified)
        pre  == CommonPrefix(orig_lines, mod_lines)
        post == CommonSuffix(SubSeq(orig_lines, pre + 1, Len(orig_lines)),
                             SubSeq(mod_lines, pre + 1, Len(mod_lines)))
    IN  IF orig_lines = mod_lines THEN NoDiff
        ELSE <<[fromfile |-> "a/" \o path, tofile |-> "b/" \o path,
                removed |-> SubSeq(orig_lines, pre + 1, Len(orig_lines) - post),
                added   |-> SubSeq(mod_lines, pre + 1, Len(mod_lines) - post)]>>

(***************************************************************************)
(* EditTransaction: the three dicts, and each method as the transaction    *)
(* and disk it leaves.                                                     *)
(***************************************************************************)
NewTransaction ==
    [original_contents |-> EmptyDict, backup_paths |-> EmptyDict,
     modified_contents |-> EmptyDict]

\* read_file: the text read is fs[path]; the entry is (re)written on every call
ReadFile(txn, fs, path) == [txn EXCEPT !.original_contents = Put(@, path, fs[path])]

\* compute_hash: md5 taken as injective on the texts of the model
ComputeHash(content) == "md5:" \o Str(content)

\* create_backup
CreateBackupDisk(fs, path) == WriteText(fs, BackupPath(path), fs[path])
CreateBackup(txn, path) == [txn EXCEPT !.backup_paths = Put(@, path, BackupPath(path))]

\* apply
ApplyDisk(fs, path, content) == WriteText(fs, path, content)
Apply(txn, path, content) == [txn EXCEPT !.modified_contents = Put(@, path, content)]

\* rollback that takes every path as read (C23 fails for it)
RollbackOkAlways(txn, path) == TRUE

\* rollback: whether it restores, and the disk after it
RollbackOk(txn, path) == Has(txn.original_contents, path)
RollbackDisk(txn, fs, path) ==
    IF RollbackOk(txn, path) THEN WriteText(fs, path, txn.original_contents.vals[path])
    ELSE fs

\* rollback_all restoring nothing (C22 fails for it)
RollbackAllDiskSkipped(txn, fs, n) == fs

\* rollback_all over the first n paths of modified_contents, in dict order
RECURSIVE RollbackAllDisk(_, _, _)
RollbackAllDisk(txn, fs, n) ==
    IF n = 0 THEN fs
    ELSE RollbackDisk(txn, RollbackAllDisk(txn, fs, n - 1), txn.modified_contents.keys[n])

RollbackAllCount(txn) ==
    Cardinality({n \in 1..Len(txn.modified_contents.keys) :
                    RollbackOk(txn, txn.modified_contents.keys[n])})

\* what a rollback_all whose write of the n-th path raises can leave: the
\* paths before it restored, the n-th as FailedWrites
RollbackAllFailures(txn, fs) ==
    UNION {[disk : FailedWrites(RollbackAllDisk(txn, fs, n - 1),
                                txn.modified_contents.keys[n],
                                txn.original_contents.vals[txn.modified_contents.keys[n]]),
            upto : {n}] :
           n \in {m \in 1..Len(txn.modified_contents.keys) :
                     RollbackOk(txn, txn.modified_contents.keys[m])}}

(***************************************************************************)
(* Result records of the orchestrator.                                     *)
(***************************************************************************)
FileEdit(path, edits, expected_hash) ==
    [path |-> path, edits |-> edits, expected_hash |-> expected_hash]

EditBlockResult(edit_index, success, match_result, original_text, applied_text) ==
    [edit_index |-> edit_index, success |-> success, match_result |-> match_result,
     original_text |-> original_text, applied_text |-> applied_text]

FileEditResult(path, success, edits_applied, edits_failed, block_results, diff_preview, errors, warnings, reject_content) ==
    [path |-> path, success |-> success, edits_applied |-> edits_applied,
     edits_failed |-> edits_failed, block_results |-> block_results,
     diff_preview |-> diff_preview, errors |-> errors, warnings |-> warnings,
     reject_content |-> reject_content]

\* a FileEditResult built from path, success and errors alone (the defaults)
FileFailure(path, error) ==
    FileEditResult(path, FALSE, 0, 0, <<>>, NoDiff, <<error>>, <<>>, "")

NoTransactionId == ""
TransactionId   == "uuid4"

MultiEditResult(success, state, files_checked, files_modified, total_edits, edits_applied, edits_failed, results, backup_paths, reject_files, transaction_id, can_apply, summary) ==
    [success |-> success, state |-> state, files_checked |-> files_checked,
     files_modified |-> files_modified, total_edits |-> total_edits,
     edits_applied |-> edits_applied, edits_failed |-> edits_failed,
     results |-> results, backup_paths |-> backup_paths,
     reject_files |-> reject_files, transaction_id |-> transaction_id,
     can_apply |-> can_apply, summary |-> summary]

\* no MultiEditResult yet
NoResult == [state |-> "none"]

\* _format_reject
FormatReject(edit, match) ==
    JoinStr(<<"# Rejected edit (confidence: " \o ToString(match.confidence) \o "%)",
              "# Tier: " \o match.tier,
              "# Warning: " \o (IF match.warning # NoMsg THEN match.warning ELSE "None"),
              "",
              "<<<<<<< SEARCH",
              Str(edit.search),
              "=======",
              Str(edit.replace),
              ">>>>>>> REPLACE">>
            \o (IF match.suggestion # NoText
                THEN <<"", "# Suggested match:", Str(match.suggestion)>> ELSE <<>>),
            "\n")

\* _generate_summary
GenerateSummary(results, state, edits_applied, edits_failed) ==
    IF state = "checked"
    THEN "Checked " \o ToString(Len(results)) \o " file(s): "
             \o ToString(edits_applied) \o " edits valid"
    ELSE IF state = "previewed"
    THEN "Preview: " \o ToString(edits_applied) \o " edit(s) ready to apply"
    ELSE IF state = "applied"
    THEN "Applied " \o ToString(edits_applied) \o " edit(s) to "
             \o ToString(Len(results)) \o " file(s)"
    ELSE IF state = "rolled_back"
    THEN "Rolled back: " \o ToString(edits_failed) \o " edit(s) failed"
    ELSE "Failed: " \o ToString(edits_failed) \o " edit(s) could not be applied"

\* sum(len(f.edits) for f in files)
RECURSIVE TotalEdits(_)
TotalEdits(files) ==
    IF files = <<>> THEN 0 ELSE Len(Head(files).edits) + TotalEdits(Tail(files))

\* all(r.success for r in results)
AllSuccess(results) == \A n \in 1..Len(results) : results[n].success

\* len([r for r in results if r.edits_applied > 0])
FilesModified(results) ==
    Cardinality({n \in 1..Len(results) : results[n].edits_applied > 0})

\* the configured MultiEditConfig.max_file_size (default 1_000_000), set low
\* enough for a file of the model to exceed it
max_file_size == 6

(***************************************************************************)
(* Inputs: the files on disk, the edits and the arguments of a run.        *)
(***************************************************************************)
MaxFiles == 2     \* files per run
MaxEdits == 2     \* edits per file
MaxContentLen == 5    \* characters of a content matched directly
MaxSearchLen == 4     \* characters of a search text matched directly

Paths == {"a", "b"}

TextA   == <<"x", "x", NL, "y", NL>>
TextB   == <<"x", NL>>
TextBig == <<"x", "x", "x", "x", "x", "x", NL>>

BaseDisk == [f \in {Resolve("a"), Resolve("b")} |->
                IF f = Resolve("a") THEN TextA ELSE TextB]

\* the environments of a run: both files present; rapidfuzz not installed;
\* b missing; b larger than max_file_size; b not readable as UTF-8
Envs ==
    {[disk |-> BaseDisk, unreadable |-> {}, has_rapidfuzz |-> TRUE],
     [disk |-> BaseDisk, unreadable |-> {}, has_rapidfuzz |-> FALSE],
     [disk |-> [f \in {Resolve("a")} |-> TextA], unreadable |-> {},
      has_rapidfuzz |-> TRUE],
     [disk |-> WriteText(BaseDisk, Resolve("b"), TextBig), unreadable |-> {},
      has_rapidfuzz |-> TRUE],
     [disk |-> BaseDisk, unreadable |-> {Resolve("b")}, has_rapidfuzz |-> TRUE]}

\* exact in TextA and TextB
EditExact      == EditBlock(<<"x">>, <<"y">>, NoText, NoText, NoInt, NoInt)
\* normalized in TextA (its line "y"), and in TextB once "x" became "y"
EditNormalized == EditBlock(<<SP, "y">>, <<"x">>, NoText, NoText, NoInt, NoInt)
\* fuzzy in TextA (3 of 4 characters), failed in TextB
EditFuzzy      == EditBlock(<<"x", "x", "x", "y">>, <<"y">>, NoText, NoText, NoInt, NoInt)
\* no match in TextA or TextB
EditMissing    == EditBlock(<<"y", "y">>, <<"x">>, NoText, NoText, NoInt, NoInt)

Edits == {EditExact, EditNormalized, EditFuzzy, EditMissing}

\* the sequences of length at most n over the set S
SeqsUpTo(S, n) == UNION {[1..m -> S] : m \in 0..n}

ExpectedHashes == {"", ComputeHash(TextA)}

\* the files of a run over several files: no edit, one that matches or one
\* that does not, and no expected hash
FlowFileEdits ==
    {FileEdit(p, es, "") : p \in Paths,
                           es \in {<<>>, <<EditExact>>, <<EditMissing>>}}

\* the files of a run over one file: any edits, with or without expected hash
DetailFileEdits ==
    {FileEdit(p, es, h) : p \in Paths, es \in SeqsUpTo(Edits, MaxEdits),
                          h \in ExpectedHashes}

FileLists ==
    SeqsUpTo(FlowFileEdits, MaxFiles) \cup {<<f>> : f \in DetailFileEdits}

MinConfidences == {0, 100}

\* the texts of length at most n over the characters of S
TextsUpTo(S, n) == UNION {[1..m -> S] : m \in 0..n}

\* the contents and search texts MatchingEngine.match is called with directly:
\* texts that differ in a character, long enough for a fuzzy match, and
\* shorter texts that differ in whitespace and line breaks
MatchInputs ==
    (TextsUpTo({"x", "y"}, MaxContentLen) \X TextsUpTo({"x", "y"}, MaxSearchLen))
    \cup (TextsUpTo({"x", SP, NL}, MaxContentLen - 1)
              \X TextsUpTo({"x", SP, NL}, MaxSearchLen - 1))

\* the values of an optional context text and of an optional line number
Contexts    == {NoText, <<"x">>}
LineNumbers == {NoInt, <<0>>, <<1>>, <<2>>, <<3>>}

\* the contents and edits MatchingEngine.match is called with directly, the
\* edit carrying any context and line range: contents of up to four lines
AnchoredInputs ==
    {<<c, EditBlock(s, <<"x">>, cb, ca, ls, le)>> :
        c \in TextsUpTo({"x", NL}, MaxContentLen - 1),
        s \in TextsUpTo({"x", NL}, MaxSearchLen - 2),
        cb \in Contexts, ca \in Contexts,
        ls \in LineNumbers, le \in LineNumbers \ {<<0>>, <<3>>}}

ArgsSet ==
    [files : FileLists, dry_run : BOOLEAN, check_only : BOOLEAN,
     create_backup : BOOLEAN, fail_fast : BOOLEAN, min_confidence : MinConfidences]

(***************************************************************************)
(* State.                                                                  *)
(***************************************************************************)
VARIABLES
    git,                \* the markers present under workdir/.git
    disk,               \* the files under workdir
    unreadable,         \* the files whose read raises
    has_rapidfuzz,      \* HAS_RAPIDFUZZ
    pc,                 \* where run is
    args,               \* MultiEditArgs
    transaction,        \* EditTransaction
    results, total_edits, edits_applied, edits_failed, reject_files,
    k,                  \* index in args.files of the file being processed
    path, content, modified_content, file_edits_applied, errors, warnings,
    block_results, reject_parts,
    i,                  \* index in file_edit.edits of the next edit
    edit_in,            \* the edit MatchingEngine.match was last called with
    match_out,          \* what MatchingEngine.match last returned
    file_result,        \* what _process_file returned
    exc,                \* the exception caught by run
    result,             \* what run returned
    disk0,              \* history: the disk when run was called
    io_log,             \* history: the reads and writes of files of the run
    safety_checks       \* history: the number of calls of check_all

env_vars  == <<git, unreadable, has_rapidfuzz, disk0>>
run_vars  == <<args, results, total_edits, edits_applied, edits_failed, reject_files, k>>
file_vars == <<path, content, modified_content, file_edits_applied, errors, warnings,
               block_results, reject_parts, i>>
match_vars == <<edit_in, match_out>>
vars == <<git, disk, unreadable, has_rapidfuzz, pc, args, transaction, results,
          total_edits, edits_applied, edits_failed, reject_files, k, path, content,
          modified_content, file_edits_applied, errors, warnings, block_results,
          reject_parts, i, edit_in, match_out, file_result, exc, result, disk0, io_log,
          safety_checks>>

NoArgs == [files |-> <<>>]
NoFileResult == [path |-> ""]
NoEdit == EditBlock(NoText, NoText, NoText, NoText, NoInt, NoInt)
\* match was not called yet
NoMatchResult == MatchResult(FALSE, "none", 0, NoPos, NoPos, NoMsg, NoText)

\* what no call has touched yet
Fresh ==
    /\ disk0 = disk
    /\ args = NoArgs
    /\ transaction = NewTransaction
    /\ results = <<>>
    /\ total_edits = 0
    /\ edits_applied = 0
    /\ edits_failed = 0
    /\ reject_files = EmptyDict
    /\ k = 0
    /\ path = ""
    /\ modified_content = <<>>
    /\ file_edits_applied = 0
    /\ errors = <<>>
    /\ warnings = <<>>
    /\ block_results = <<>>
    /\ reject_parts = <<>>
    /\ i = 0
    /\ match_out = NoMatchResult
    /\ file_result = NoFileResult
    /\ exc = ""
    /\ result = NoResult
    /\ io_log = <<>>
    /\ safety_checks = 0

\* before MultiEdit.run is called, in any environment of Envs
InitRun ==
    /\ git \in SUBSET Markers
    /\ \E e \in Envs :
        /\ disk = e.disk
        /\ unreadable = e.unreadable
        /\ has_rapidfuzz = e.has_rapidfuzz
    /\ pc = "idle"
    /\ content = <<>>
    /\ edit_in = NoEdit
    /\ Fresh

\* before MatchingEngine.match is called with a content and an edit of
\* MatchInputs
InitMatch ==
    /\ git = {}
    /\ disk = BaseDisk
    /\ unreadable = {}
    /\ has_rapidfuzz \in BOOLEAN
    /\ pc = "match"
    /\ \/ \E m \in MatchInputs :
            /\ content = m[1]
            /\ edit_in = EditBlock(m[2], <<"x">>, NoText, NoText, NoInt, NoInt)
       \/ \E m \in AnchoredInputs :
            /\ content = m[1]
            /\ edit_in = m[2]
    /\ Fresh

Init == InitRun \/ InitMatch

(***************************************************************************)
(* MultiEdit.run and MultiEdit._process_file, one action per stretch of    *)
(* code between two points where the run can be observed.                  *)
(***************************************************************************)

\* run, lines 454-463: the safety gate
SafetyCheck ==
    /\ pc = "idle"
    /\ safety_checks' = safety_checks + 1
    /\ LET errs == CheckAll(git)
       IN  IF errs # <<>>
           THEN /\ result' = MultiEditResult(FALSE, "failed", 0, 0, 0, 0, 0, <<>>,
                                 EmptyDict, EmptyDict, NoTransactionId, FALSE,
                                 "Safety check failed: " \o JoinStr(errs, "; "))
                /\ pc' = "done"
           ELSE /\ result' = result
                /\ pc' = "safe"
    /\ UNCHANGED <<env_vars, match_vars, run_vars, file_vars, disk, transaction,
                   file_result, exc, io_log>>

\* run, lines 465-472: the transaction and the counters, for the arguments a
Begin(a) ==
    /\ args' = a
    /\ transaction' = NewTransaction
    /\ results' = <<>>
    /\ total_edits' = TotalEdits(a.files)
    /\ edits_applied' = 0
    /\ edits_failed' = 0
    /\ reject_files' = EmptyDict
    /\ k' = 1
    /\ pc' = IF a.files = <<>> THEN "finish" ELSE "file"
    /\ UNCHANGED <<env_vars, match_vars, file_vars, disk, file_result, exc, result, io_log,
                   safety_checks>>

\* _process_file returns r without having resolved an edit
ReturnFileFailure(r) ==
    /\ file_result' = r
    /\ pc' = "filed"
    /\ UNCHANGED <<content, modified_content, file_edits_applied, errors, warnings,
                   block_results, reject_parts, i>>

\* lines 583-585 with the hashes never compared (C13 fails for it)
HashConflictIgnored(file_edit, read_content) == FALSE

\* lines 583-585: an expected hash is given and is not the hash of the
\* content read
HashConflict(file_edit, read_content) ==
    /\ file_edit.expected_hash # ""
    /\ ComputeHash(read_content) # file_edit.expected_hash

\* _process_file, lines 551-594: the checks of the file, its read, its hash
OpenFile ==
    /\ pc = "file"
    /\ LET file_edit == args.files[k]
           p == Resolve(file_edit.path)
       IN  /\ path' = p
           /\ IF ~Exists(disk, p)
              THEN /\ ReturnFileFailure(FileFailure(p, "File not found: " \o p))
                   /\ UNCHANGED <<transaction, io_log>>
              ELSE IF Len(disk[p]) > max_file_size
              THEN /\ ReturnFileFailure(FileFailure(p,
                          "File too large: " \o ToString(Len(disk[p])) \o " bytes"))
                   /\ UNCHANGED <<transaction, io_log>>
              ELSE IF p \in unreadable
              THEN /\ ReturnFileFailure(FileFailure(p,
                          "Failed to read file: 'utf-8' codec can't decode"))
                   /\ io_log' = Append(io_log, <<"read", p>>)
                   /\ UNCHANGED transaction
              ELSE /\ transaction' = ReadFile(transaction, disk, p)
                   /\ io_log' = Append(io_log, <<"read", p>>)
                   /\ IF HashConflict(file_edit, disk[p])
                      THEN ReturnFileFailure(FileFailure(p,
                               "File has changed since edit was planned (hash mismatch)"))
                      ELSE /\ content' = disk[p]
                           /\ modified_content' = disk[p]
                           /\ file_edits_applied' = 0
                           /\ errors' = <<>>
                           /\ warnings' = <<>>
                           /\ block_results' = <<>>
                           /\ reject_parts' = <<>>
                           /\ i' = 1
                           /\ pc' = IF file_edit.edits = <<>> THEN "write" ELSE "edit"
                           /\ UNCHANGED file_result
    /\ UNCHANGED <<env_vars, match_vars, run_vars, disk, exc, result, safety_checks>>

\* line 609 without the test of the confidence (C11 fails for it)
AcceptsOnSuccess(match_result, min_confidence) == match_result.success

\* the edit applies: match.success and match.confidence >= min_confidence
Accepts(match_result, min_confidence) ==
    match_result.success /\ match_result.confidence >= min_confidence

\* lines 603-629 for the edit and its match_result: the edit is applied to the
\* working content, or rejected with an error and a reject block
ResolveWith(edit, match_result) ==
    /\ IF /\ Accepts(match_result, args.min_confidence)
          /\ match_result.match_start # NoPos
          /\ match_result.match_end # NoPos
       THEN /\ modified_content' =
                   Slice(modified_content, 0, match_result.match_start)
                   \o edit.replace
                   \o SliceFrom(modified_content, match_result.match_end)
            /\ file_edits_applied' = file_edits_applied + 1
            /\ warnings' = IF match_result.warning # NoMsg
                           THEN Append(warnings, "Edit " \o ToString(i) \o ": "
                                           \o match_result.warning)
                           ELSE warnings
            /\ block_results' = Append(block_results,
                   EditBlockResult(i - 1, match_result.success, match_result,
                                   Slice(modified_content, match_result.match_start,
                                         match_result.match_end),
                                   edit.replace))
       ELSE /\ UNCHANGED <<modified_content, file_edits_applied, warnings>>
            /\ block_results' = Append(block_results,
                   EditBlockResult(i - 1, match_result.success, match_result,
                                   NoText, NoText))
    /\ IF Accepts(match_result, args.min_confidence)
       THEN UNCHANGED <<errors, reject_parts>>
       ELSE /\ errors' = Append(errors, "Edit " \o ToString(i) \o ": "
                            \o (IF match_result.warning # NoMsg
                                THEN match_result.warning ELSE "No match found"))
            /\ reject_parts' = Append(reject_parts, FormatReject(edit, match_result))

\* line 598 with the content as read in place of the working content (C12
\* fails for it)
MatchedContentAsRead(original, working) == original

\* the content an edit is matched against (line 598): the working content
MatchedContent(original, working) == working

\* _process_file, lines 596-629: one turn of the loop over the edits
ResolveEdit ==
    /\ pc = "edit"
    /\ edit_in' = args.files[k].edits[i]
    /\ match_out' = Match(MatchedContent(content, modified_content), edit_in',
                          args.min_confidence, has_rapidfuzz)
    /\ ResolveWith(edit_in', match_out')
    /\ i' = i + 1
    /\ pc' = IF i = Len(args.files[k].edits) THEN "write" ELSE "edit"
    /\ UNCHANGED <<env_vars, run_vars, path, content, disk, transaction, file_result,
                   exc, result, io_log, safety_checks>>

\* line 634 without the test of check_only (C5 fails for it)
WritesUnderCheckOnly == ~args.dry_run /\ file_edits_applied > 0

\* whether _process_file writes the file (line 634)
Writes == ~args.dry_run /\ ~args.check_only /\ file_edits_applied > 0

\* lines 639-651 with success also asking that no file before failed (C19
\* fails for it)
ProcessedFileResultAfterFailure ==
    FileEditResult(path, errors = <<>> /\ AllSuccess(results), file_edits_applied,
                   Len(args.files[k].edits) - file_edits_applied, block_results,
                   IF content # modified_content
                       THEN DiffGenerate(content, modified_content, path) ELSE NoDiff,
                   errors, warnings, JoinStr(reject_parts, "\n"))

\* the FileEditResult of lines 639-651
ProcessedFileResult ==
    FileEditResult(path, errors = <<>>, file_edits_applied,
                   Len(args.files[k].edits) - file_edits_applied, block_results,
                   IF content # modified_content
                       THEN DiffGenerate(content, modified_content, path) ELSE NoDiff,
                   errors, warnings, JoinStr(reject_parts, "\n"))

\* _process_file, lines 631-651: the diff, the backup, the write, the result
WriteFile ==
    /\ pc = "write"
    /\ \/ /\ ~Writes
          /\ file_result' = ProcessedFileResult
          /\ pc' = "filed"
          /\ UNCHANGED <<disk, transaction, io_log, exc>>
       \/ /\ Writes
          /\ disk' = ApplyDisk(IF args.create_backup THEN CreateBackupDisk(disk, path)
                               ELSE disk, path, modified_content)
          /\ transaction' = Apply(IF args.create_backup THEN CreateBackup(transaction, path)
                                  ELSE transaction, path, modified_content)
          /\ io_log' = io_log
                 \o (IF args.create_backup
                     THEN <<<<"read", path>>, <<"write", BackupPath(path)>>>> ELSE <<>>)
                 \o <<<<"write", path>>>>
          /\ file_result' = ProcessedFileResult
          /\ pc' = "filed"
          /\ UNCHANGED exc
       \/ \* the write of the backup raises
          /\ Writes /\ args.create_backup
          /\ disk' \in FailedWrites(disk, BackupPath(path), disk[path])
          /\ io_log' = io_log \o <<<<"read", path>>, <<"write", BackupPath(path)>>>>
          /\ exc' = "write failed: " \o BackupPath(path)
          /\ pc' = "except"
          /\ UNCHANGED <<transaction, file_result>>
       \/ \* the write of the file raises
          /\ Writes
          /\ disk' \in FailedWrites(IF args.create_backup THEN CreateBackupDisk(disk, path)
                                    ELSE disk, path, modified_content)
          /\ transaction' = IF args.create_backup THEN CreateBackup(transaction, path)
                            ELSE transaction
          /\ io_log' = io_log
                 \o (IF args.create_backup
                     THEN <<<<"read", path>>, <<"write", BackupPath(path)>>>> ELSE <<>>)
                 \o <<<<"write", path>>>>
          /\ exc' = "write failed: " \o path
          /\ pc' = "except"
          /\ UNCHANGED file_result
    /\ UNCHANGED <<env_vars, match_vars, run_vars, file_vars, result, safety_checks>>

\* the writes rollback_all makes over the first n paths, in order
RECURSIVE RollbackAllLog(_, _)
RollbackAllLog(txn, n) ==
    IF n = 0 THEN <<>>
    ELSE RollbackAllLog(txn, n - 1)
         \o (IF RollbackOk(txn, txn.modified_contents.keys[n])
             THEN <<<<"write", txn.modified_contents.keys[n]>>>> ELSE <<>>)

\* run, lines 481-504: the file's result is collected; fail_fast rolls back
Collect ==
    /\ pc = "filed"
    /\ results' = Append(results, file_result)
    /\ edits_applied' = edits_applied + file_result.edits_applied
    /\ edits_failed' = edits_failed + file_result.edits_failed
    /\ reject_files' = IF file_result.reject_content # ""
                       THEN Put(reject_files, args.files[k].path,
                                file_result.reject_content)
                       ELSE reject_files
    /\ \/ /\ ~(~file_result.success /\ args.fail_fast)
          /\ k' = k + 1
          /\ pc' = IF k = Len(args.files) THEN "finish" ELSE "file"
          /\ UNCHANGED <<disk, result, exc, io_log>>
       \/ /\ ~file_result.success /\ args.fail_fast
          /\ disk' = RollbackAllDisk(transaction, disk,
                                     Len(transaction.modified_contents.keys))
          /\ io_log' = io_log \o RollbackAllLog(transaction,
                                                  Len(transaction.modified_contents.keys))
          /\ result' = MultiEditResult(FALSE, "rolled_back", Len(results'), 0,
                           total_edits, 0, edits_failed', results', EmptyDict,
                           reject_files', TransactionId, FALSE,
                           "Failed and rolled back: "
                               \o (IF file_result.errors # <<>>
                                   THEN file_result.errors[1] ELSE "Unknown error"))
          /\ pc' = "done"
          /\ UNCHANGED <<k, exc>>
       \/ \* a write of rollback_all raises
          /\ ~file_result.success /\ args.fail_fast
          /\ \E f \in RollbackAllFailures(transaction, disk) :
                /\ disk' = f.disk
                /\ io_log' = io_log \o RollbackAllLog(transaction, f.upto)
          /\ exc' = "write failed in rollback"
          /\ pc' = "except"
          /\ UNCHANGED <<k, result>>
    /\ UNCHANGED <<env_vars, match_vars, args, total_edits, file_vars, transaction,
                   file_result, safety_checks>>

\* lines 511-516 with dry_run tested before check_only (C8 fails for it)
FinalStateDryRunFirst(a, all_success) ==
    IF a.dry_run THEN "previewed"
    ELSE IF a.check_only THEN "checked"
    ELSE IF all_success THEN "applied" ELSE "failed"

\* lines 511-516 reporting applied also when a file failed (C28 fails for it)
FinalStateAppliedAnyway(a, all_success) ==
    IF a.check_only THEN "checked"
    ELSE IF a.dry_run THEN "previewed"
    ELSE "applied"

\* the state run reports after the loop (lines 511-516)
FinalState(a, all_success) ==
    IF a.check_only THEN "checked"
    ELSE IF a.dry_run THEN "previewed"
    ELSE IF all_success THEN "applied" ELSE "failed"

\* line 530 without the test of dry_run (C9 fails for it)
CanApplyAnyMode(a, all_success) == all_success

\* can_apply (line 530)
CanApply(a, all_success) == all_success /\ a.dry_run

\* run, lines 506-532: the result after every file was processed
Finish ==
    /\ pc = "finish"
    /\ LET all_success == AllSuccess(results)
           state == FinalState(args, all_success)
       IN  result' = MultiEditResult(all_success, state, Len(results),
                         FilesModified(results), total_edits, edits_applied,
                         edits_failed, results, transaction.backup_paths, reject_files,
                         TransactionId, CanApply(args, all_success),
                         GenerateSummary(results, state, edits_applied, edits_failed))
    /\ pc' = "done"
    /\ UNCHANGED <<env_vars, match_vars, run_vars, file_vars, disk, transaction,
                   file_result, exc, io_log, safety_checks>>

\* run, lines 534-542: the exception handler
Handler ==
    /\ pc = "except"
    /\ \/ /\ disk' = RollbackAllDisk(transaction, disk,
                                     Len(transaction.modified_contents.keys))
          /\ io_log' = io_log \o RollbackAllLog(transaction,
                                                  Len(transaction.modified_contents.keys))
          /\ result' = MultiEditResult(FALSE, "failed", 0, 0, 0, 0, 0, results,
                           EmptyDict, EmptyDict, TransactionId, FALSE, "Error: " \o exc)
          /\ pc' = "done"
       \/ \* a write of rollback_all raises again: the exception leaves run
          /\ \E f \in RollbackAllFailures(transaction, disk) :
                /\ disk' = f.disk
                /\ io_log' = io_log \o RollbackAllLog(transaction, f.upto)
          /\ pc' = "raised"
          /\ UNCHANGED result
    /\ UNCHANGED <<env_vars, match_vars, run_vars, file_vars, transaction, file_result,
                   exc, safety_checks>>

\* run is called with any arguments of ArgsSet
BeginRun == pc = "safe" /\ \E a \in ArgsSet : Begin(a)

\* MatchingEngine.match(content, edit), called directly
MatchCall ==
    /\ pc = "match"
    /\ match_out' = Match(content, edit_in, DEFAULT_MIN_CONFIDENCE, has_rapidfuzz)
    /\ pc' = "matched"
    /\ UNCHANGED <<env_vars, run_vars, file_vars, edit_in, disk, transaction, file_result,
                   exc, result, io_log, safety_checks>>

Next ==
    \/ SafetyCheck
    \/ BeginRun
    \/ OpenFile
    \/ ResolveEdit
    \/ WriteFile
    \/ Collect
    \/ Finish
    \/ Handler
    \/ MatchCall

Spec == Init /\ [][Next]_vars

(***************************************************************************)
(* Properties of a run. A run has returned when pc = "done"; exc = "" says *)
(* that no read or write of the run raised.                                *)
(***************************************************************************)

\* run got past the safety gate and was given its arguments
Started == args # NoArgs

\* the resolved paths of args.files
TargetPaths == {Resolve(args.files[n].path) : n \in 1..Len(args.files)}

\* the file p is on disk as it was when run was called
SameAsBefore(p) ==
    /\ Exists(disk, p) <=> Exists(disk0, p)
    /\ Exists(disk, p) => disk[p] = disk0[p]

\* every file of args.files was processed and none failed
EveryFileSucceeded == Len(results) = Len(args.files) /\ AllSuccess(results)

\* C1: when a run with fail_fast=true, dry_run=false and check_only=false in
\* which some file fails returns, every target file's content on disk equals
\* its content before the run, and the result has success=false and state
\* rolled_back. Stated for the runs in which no read or write raised.
C1_FailFastRestoresEveryTarget ==
    (/\ pc = "done" /\ Started /\ exc = ""
     /\ args.fail_fast /\ ~args.dry_run /\ ~args.check_only
     /\ ~AllSuccess(results))
    => /\ \A p \in TargetPaths : SameAsBefore(p)
       /\ result.success = FALSE
       /\ result.state = "rolled_back"

\* C2: a run with dry_run=false and check_only=false is atomic over its target
\* files: when it returns, either every requested edit was written (state
\* applied, every edit applied) or every target file has its content of before
\* the run. Stated for the runs in which no read or write raised.
C2_RunIsAtomic ==
    (pc = "done" /\ Started /\ exc = "" /\ ~args.dry_run /\ ~args.check_only)
    => \/ result.state = "applied" /\ result.edits_applied = result.total_edits
       \/ \A p \in TargetPaths : SameAsBefore(p)

\* C3: round trip. A path the transaction read and then wrote with apply is,
\* after rollback (here: the rollback_all of a fail_fast run, which rolls back
\* the paths of modified_contents), on disk as the first read returned it; the
\* first read of a path in a run returns its content of before the run, since
\* no write of the run precedes it.
C3_RollbackRestoresFirstRead ==
    (pc = "done" /\ exc = "" /\ result.state = "rolled_back")
    => \A n \in 1..Len(transaction.modified_contents.keys) :
          /\ RollbackOk(transaction, transaction.modified_contents.keys[n])
          /\ disk[transaction.modified_contents.keys[n]]
                 = disk0[transaction.modified_contents.keys[n]]

\* C4: read_file caches per path: once a path has an original_contents entry,
\* no later step (a later read_file of that path in particular) changes the
\* entry.
C4_ReadFileKeepsFirstRead ==
    [][\A p \in DOMAIN transaction.original_contents.vals :
          /\ Has(transaction'.original_contents, p)
          /\ transaction'.original_contents.vals[p]
                 = transaction.original_contents.vals[p]]_vars

\* some edit of the file p was applied: in a file already collected, or in
\* the file being processed
AppliedTo(p) ==
    \/ \E n \in 1..Len(results) : results[n].path = p /\ results[n].edits_applied > 0
    \/ path = p /\ file_edits_applied > 0

\* C5: a target file is written, and a backup of it created, only when
\* dry_run=false, check_only=false and at least one edit of that file was
\* applied; in every run with check_only=true or dry_run=true no file on disk
\* changes and no backup is created or recorded.
C5_WritesOnlyWhenApplying ==
    Started =>
        /\ \A p \in TargetPaths :
              (\/ ~SameAsBefore(p)
               \/ Exists(disk, BackupPath(p))
               \/ \E n \in 1..Len(io_log) :
                     io_log[n][1] = "write" /\ io_log[n][2] \in {p, BackupPath(p)})
              => (~args.dry_run /\ ~args.check_only /\ AppliedTo(p))
        /\ (args.dry_run \/ args.check_only)
              => /\ disk = disk0
                 /\ transaction.backup_paths = EmptyDict
                 /\ \A n \in 1..Len(io_log) : io_log[n][1] # "write"

\* C5's case: a check_only run (dry_run=false, create_backup=true) returned
\* with an edit resolved and the disk as it was
C5_CheckOnlyResolvedNothingWritten ==
    /\ pc = "done" /\ Started
    /\ args.check_only /\ ~args.dry_run /\ args.create_backup
    /\ result.edits_applied > 0
    /\ disk = disk0

\* C6: the safety check is evaluated once per run, before any target file is
\* read; when a merge, rebase or index-lock marker is present the run returns
\* success=false and state failed with the error texts in the summary, and no
\* target file is read, written or backed up.
C6_SafetyGateBeforeAnyFile ==
    /\ safety_checks <= 1
    /\ (Started \/ io_log # <<>>) => (safety_checks = 1 /\ git = {})
    /\ (pc # "idle" /\ git # {}) =>
          /\ pc = "done"
          /\ result.success = FALSE
          /\ result.state = "failed"
          /\ \E errs \in SeqsUpTo({MERGE_ERROR, REBASE_ERROR, LOCK_ERROR}, 3) :
                /\ result.summary = "Safety check failed: " \o JoinStr(errs, "; ")
                /\ (MERGE_HEAD \in git)
                       <=> (\E n \in 1..Len(errs) : errs[n] = MERGE_ERROR)
                /\ (REBASE_MERGE \in git \/ REBASE_APPLY \in git)
                       <=> (\E n \in 1..Len(errs) : errs[n] = REBASE_ERROR)
                /\ (INDEX_LOCK \in git)
                       <=> (\E n \in 1..Len(errs) : errs[n] = LOCK_ERROR)
          /\ io_log = <<>>
          /\ disk = disk0
          /\ transaction = NewTransaction

\* C6's case: run returned from the safety gate with a merge and an index lock
\* in progress
C6_UnsafeRunReturned ==
    /\ pc = "done"
    /\ git = {MERGE_HEAD, INDEX_LOCK}
    /\ safety_checks = 1
    /\ result.state = "failed"

\* C7: in a run with fail_fast=false, whenever a file's result is unsuccessful
\* the reported state is failed, whatever check_only and dry_run are; checked,
\* previewed and applied are reported only when no file failed.
C7_FailedWhenAnyFileFailed ==
    (pc = "done" /\ Started /\ exc = "" /\ ~args.fail_fast)
    => /\ ~AllSuccess(results) => result.state = "failed"
       /\ result.state \in {"checked", "previewed", "applied"} => AllSuccess(results)

\* C8: when every file of a run succeeds the reported state is checked if
\* check_only=true (whatever dry_run is), previewed if check_only=false and
\* dry_run=true, applied if both are false.
C8_StateFollowsFlags ==
    (pc = "done" /\ Started /\ EveryFileSucceeded)
    => /\ result.success = TRUE
       /\ args.check_only => result.state = "checked"
       /\ (~args.check_only /\ args.dry_run) => result.state = "previewed"
       /\ (~args.check_only /\ ~args.dry_run) => result.state = "applied"

\* C8's case: a run with check_only=true and dry_run=true returned with its
\* files processed and succeeded
C8_BothFlagsAllSucceeded ==
    /\ pc = "done" /\ Started /\ EveryFileSucceeded
    /\ Len(results) > 0
    /\ args.check_only /\ args.dry_run
    /\ result.state = "checked"

\* C9 as stated: can_apply is true if and only if the run was a preview
\* (dry_run=true, state previewed) in which every file succeeded; it is false
\* in every result whose state is checked, applied, failed or rolled_back.
C9_CanApplyOnlyWhenPreviewed ==
    pc = "done"
    => /\ result.can_apply
              <=> (/\ Started /\ args.dry_run /\ EveryFileSucceeded
                   /\ result.state = "previewed")
       /\ result.state \in {"checked", "applied", "failed", "rolled_back"}
              => ~result.can_apply

\* C9 amended: can_apply is true if and only if dry_run=true and every file
\* succeeded; the state is then previewed, or checked when check_only=true as
\* well; it is false in every result whose state is applied, failed or
\* rolled_back, and in a checked result of a run with dry_run=false.
C9_CanApplyIffDryRunSucceeded ==
    pc = "done"
    => /\ result.can_apply <=> (Started /\ args.dry_run /\ EveryFileSucceeded)
       /\ result.can_apply
              => result.state = (IF args.check_only THEN "checked" ELSE "previewed")
       /\ result.state \in {"applied", "failed", "rolled_back"} => ~result.can_apply
       /\ (result.state = "checked" /\ result.can_apply) => args.dry_run

\* C9's case: a run with check_only=true and dry_run=true returned state
\* checked with can_apply=true
C9_CheckedCanApply ==
    /\ pc = "done" /\ Started
    /\ args.check_only /\ args.dry_run
    /\ Len(results) > 0
    /\ result.state = "checked"
    /\ result.can_apply

\* C10: a fuzzy result is never auto-applied: every result of match whose tier
\* is FUZZY or FAILED has success=false, and the step of the orchestrator that
\* resolves such an edit leaves the working content and the count of applied
\* edits unchanged and records no applied text, for every min_confidence
\* (0 included).
C10_FuzzyNeverApplied ==
    [][match_out'.tier \in {FUZZY, FAILED} =>
          /\ ~match_out'.success
          /\ pc = "edit" =>
                /\ modified_content' = modified_content
                /\ file_edits_applied' = file_edits_applied
                /\ ~block_results'[Len(block_results')].success
                /\ block_results'[Len(block_results')].applied_text = NoText]_vars

\* C10's case: in a run with min_confidence=0 an edit resolved to a fuzzy match
\* at or above the floor, with a suggestion, and was not applied
C10_FuzzyMatchInRun ==
    /\ Started /\ args.min_confidence = 0
    /\ pc \in {"edit", "write"}
    /\ match_out.tier = FUZZY
    /\ match_out.confidence >= FUZZY_FLOOR
    /\ match_out.suggestion # NoText
    /\ block_results # <<>>
    /\ block_results[Len(block_results)].match_result = match_out
    /\ file_edits_applied = 0
    /\ modified_content = content

\* the reject block of an edit and its match: the lines of its confidence,
\* tier and warning, the search and replace texts between their markers, and
\* the suggestion when the match has one
RejectBlock(edit, match) ==
    "# Rejected edit (confidence: " \o ToString(match.confidence) \o "%)\n"
    \o "# Tier: " \o match.tier \o "\n"
    \o "# Warning: " \o (IF match.warning = NoMsg THEN "None" ELSE match.warning)
    \o "\n\n<<<<<<< SEARCH\n" \o Str(edit.search)
    \o "\n=======\n" \o Str(edit.replace) \o "\n>>>>>>> REPLACE"
    \o (IF match.suggestion = NoText THEN ""
        ELSE "\n\n# Suggested match:\n" \o Str(match.suggestion))

\* C11: every edit of a processed file has exactly one of two outcomes: it is
\* applied to the working content, only when match.success is true and
\* match.confidence >= min_confidence; or the error list gains one entry and
\* the reject content one block with the edit's search text, replace text,
\* tier and any suggestion, the working content staying as it was.
C11_EachEditAppliedOrRejected ==
    [][pc = "edit" =>
          \/ /\ match_out'.success
             /\ match_out'.confidence >= args.min_confidence
             /\ file_edits_applied' = file_edits_applied + 1
             /\ modified_content' =
                    Slice(modified_content, 0, match_out'.match_start)
                    \o edit_in'.replace
                    \o SliceFrom(modified_content, match_out'.match_end)
             /\ block_results'[Len(block_results')].applied_text = edit_in'.replace
             /\ errors' = errors
             /\ reject_parts' = reject_parts
          \/ /\ file_edits_applied' = file_edits_applied
             /\ modified_content' = modified_content
             /\ block_results'[Len(block_results')].applied_text = NoText
             /\ Len(errors') = Len(errors) + 1
             /\ SubSeq(errors', 1, Len(errors)) = errors
             /\ reject_parts' = Append(reject_parts, RejectBlock(edit_in', match_out'))]_vars

\* C11's case: of the two edits of a file the first was applied and the
\* second, matched below min_confidence, was rejected with one error and one
\* reject block
C11_OneAppliedOneRejected ==
    /\ pc = "write"
    /\ Len(block_results) = 2
    /\ block_results[1].applied_text # NoText
    /\ match_out.success /\ match_out.confidence < args.min_confidence
    /\ file_edits_applied = 1
    /\ Len(errors) = 1
    /\ reject_parts = <<RejectBlock(edit_in, match_out)>>

\* the text sub is a literal substring of the text s
Occurs(s, sub) ==
    \E n \in 0..(Len(s) - Len(sub)) : SubSeq(s, n + 1, n + Len(sub)) = sub

\* an edit whose match is m applies: the match succeeded, with a confidence
\* of at least min_confidence
Applies(m) == m.success /\ m.confidence >= args.min_confidence

\* the content c after the edit whose match against c is m: the matched span
\* replaced when the edit applies, c itself when the edit is rejected
AfterEdit(c, edit, m) ==
    IF Applies(m)
    THEN Slice(c, 0, m.match_start) \o edit.replace \o SliceFrom(c, m.match_end)
    ELSE c

\* the content c after the edit, matched against c
\* (AfterMatched), and after the first n of edits, each matched against the
\* content the edits before it left (AfterEdits)
AfterMatched(c, edit) ==
    AfterEdit(c, edit, Match(c, edit, args.min_confidence, has_rapidfuzz))

RECURSIVE AfterEdits(_, _, _)
AfterEdits(c, edits, n) ==
    IF n = 0 THEN c ELSE AfterMatched(AfterEdits(c, edits, n - 1), edits[n])

\* the block results brs from the j-th on are those of edits resolved in
\* order from the content c: each is the match of its edit against the
\* content the edits before it left (exact exactly when that content holds
\* the search text), a rejected edit leaves the content as it was, and the
\* content after the last of them is the working content
RECURSIVE ResolvedInOrder(_, _, _, _)
RECURSIVE ResolvedAs(_, _, _, _, _)
ResolvedInOrder(c, edits, brs, j) ==
    IF j > Len(brs) THEN c = modified_content
    ELSE ResolvedAs(c, edits, brs, j,
                    Match(c, edits[j], args.min_confidence, has_rapidfuzz))
ResolvedAs(c, edits, brs, j, m) ==
    /\ brs[j].edit_index = j - 1
    /\ brs[j].match_result = m
    /\ (m.tier = EXACT) <=> Occurs(c, edits[j].search)
    /\ ResolvedInOrder(AfterEdit(c, edits[j], m), edits, brs, j + 1)

\* C12: the edits of a file are resolved in list order against the evolving
\* content: the result of edit j is the match of its search text against the
\* content the applied edits among 1..j-1 produced (an exact match exactly
\* when that content holds the search text), and the working content is the
\* content as read with the applied edits made in order, rejected edits
\* leaving it as it was.
C12_EditsSeeEvolvingContent ==
    pc \in {"edit", "write"} =>
        /\ Len(block_results) = i - 1
        /\ ResolvedInOrder(content, args.files[k].edits, block_results, 1)

\* C12's case: the second edit of a file was applied on a match that the
\* first edit's replacement created, its search text matching nowhere in the
\* content as read
C12_SecondEditMatchesFirstEditsText ==
    /\ pc = "write"
    /\ Len(block_results) = 2
    /\ block_results[1].applied_text # NoText
    /\ block_results[2].applied_text # NoText
    /\ ~Match(content, args.files[k].edits[2], args.min_confidence, has_rapidfuzz).success

HASH_MISMATCH == "File has changed since edit was planned (hash mismatch)"

\* the file about to be processed has an expected hash that is not the hash
\* of its content on disk
StaleHash ==
    /\ pc = "file"
    /\ args.files[k].expected_hash # ""
    /\ Exists(disk, Resolve(args.files[k].path))
    /\ ComputeHash(disk[Resolve(args.files[k].path)]) # args.files[k].expected_hash

\* the file being opened fails on its hash: _process_file returns at once
\* with the hash mismatch as its only error, no edit resolved or counted, and
\* nothing written or backed up
FailsOnHash ==
    /\ pc' = "filed"
    /\ file_result'.success = FALSE
    /\ file_result'.errors = <<HASH_MISMATCH>>
    /\ file_result'.block_results = <<>>
    /\ file_result'.edits_applied = 0
    /\ disk' = disk
    /\ transaction'.backup_paths = transaction.backup_paths
    /\ transaction'.modified_contents = transaction.modified_contents
    /\ \A n \in 1..Len(io_log') : io_log'[n][1] # "write"

\* C13 as stated: whenever a FileEdit has an expected_hash that differs from
\* the hash of the file's current content, the file fails with the hash
\* mismatch error, none of its edits is resolved or counted as applied, and
\* the file is neither written nor backed up.
C13_StaleHashFailsFile == [][StaleHash => FailsOnHash]_vars

\* C13 amended: the same for a file that is not larger than max_file_size
\* and can be read; a file that is too large or unreadable fails before its
\* hash is compared, with the error of that check, and is not written either.
C13_StaleHashFailsReadFile ==
    [][StaleHash =>
          /\ (/\ Len(disk[Resolve(args.files[k].path)]) <= max_file_size
              /\ Resolve(args.files[k].path) \notin unreadable) => FailsOnHash
          /\ pc' = "filed"
          /\ file_result'.success = FALSE
          /\ file_result'.block_results = <<>>
          /\ file_result'.edits_applied = 0
          /\ disk' = disk]_vars

\* C13's case: a file whose only edit matches its content failed on its
\* expected hash, with no edit resolved and the disk as it was
C13_MatchingEditStaleHash ==
    /\ pc = "filed"
    /\ file_result.errors = <<HASH_MISMATCH>>
    /\ Len(args.files[k].edits) = 1
    /\ Match(disk[path], args.files[k].edits[1], args.min_confidence, has_rapidfuzz).success
    /\ file_result.block_results = <<>>
    /\ disk = disk0
    /\ ~args.dry_run /\ ~args.check_only

\* C14: when an exception is raised while the files are processed, during a
\* backup or part-way through a write of a file included, run catches it,
\* restores every target file to its content of before the run, and returns
\* success=false with state failed and the exception text in the summary.
C14_ExceptionRestoresEveryTarget ==
    (exc # "" /\ pc # "except") =>
        /\ pc = "done"
        /\ \A p \in TargetPaths : SameAsBefore(p)
        /\ result.success = FALSE
        /\ result.state = "failed"
        /\ result.summary = "Error: " \o exc

\* m is an exact match of the search text of edit in the content c
ExactMatch(c, edit, m) ==
    /\ m.success
    /\ m.tier = EXACT
    /\ m.confidence = CONF_EXACT
    /\ m.match_start \in 0..Len(c)
    /\ m.match_end \in m.match_start..Len(c)
    /\ SubSeq(c, m.match_start + 1, m.match_end) = edit.search

\* C15: for every content and edit whose search text is a literal substring
\* of the content, match returns success=true with tier EXACT, confidence 1.0
\* and offsets with content[match_start:match_end] = search, whatever context
\* and line range the edit carries; in a direct call and in a run.
C15_SubstringMatchesExact ==
    [][/\ (pc = "match" /\ Occurs(content, edit_in.search))
            => ExactMatch(content, edit_in, match_out')
       /\ (pc = "edit" /\ Occurs(modified_content, edit_in'.search))
            => ExactMatch(modified_content, edit_in', match_out')]_vars

\* C15's case: match was called with an edit that carries both contexts and a
\* line range, and whose search text, of two characters, occurs in the
\* content; the result is the exact match
C15_ExactWithContextAndRange ==
    /\ pc = "matched"
    /\ edit_in.context_before # NoText /\ edit_in.context_after # NoText
    /\ edit_in.line_start # NoInt /\ edit_in.line_end # NoInt
    /\ Len(edit_in.search) = 2
    /\ Occurs(content, edit_in.search)
    /\ match_out.tier = EXACT
    /\ match_out.match_start > 0

\* the lines of the text s, their line ends kept
LinesOf(s) == Splitlines(s)

\* the lines after the first `before` of lines are, each stripped of leading
\* and trailing whitespace, the stripped search_lines
RunOfLines(lines, search_lines, before) ==
    /\ before + Len(search_lines) <= Len(lines)
    /\ \A j \in 1..Len(search_lines) :
          Strip(lines[before + j]) = Strip(search_lines[j])

\* m is the normalized match of the first run of the lines of c that equals
\* search_lines up to whitespace
NormalizedMatchIn(c, lines, search_lines, m) ==
    /\ m.success
    /\ m.tier = NORMALIZED
    /\ m.confidence = CONF_NORMALIZED
    /\ \E before \in 0..Len(lines) :
          /\ RunOfLines(lines, search_lines, before)
          /\ \A sooner \in 0..(before - 1) : ~RunOfLines(lines, search_lines, sooner)
          /\ m.match_start = Len(Join(SubSeq(lines, 1, before)))
          /\ SubSeq(c, m.match_start + 1, m.match_end)
                 = Join(SubSeq(lines, before + 1, before + Len(search_lines)))

NormalizedMatch(c, search, m) == NormalizedMatchIn(c, LinesOf(c), LinesOf(search), m)

\* some run of lines equals search_lines up to whitespace
SomeRunOfLines(lines, search_lines) ==
    \E before \in 0..Len(lines) : RunOfLines(lines, search_lines, before)

\* the search text is no substring of c, and some run of lines of c equals
\* its lines up to whitespace
NormalizedCase(c, search) ==
    ~Occurs(c, search) /\ SomeRunOfLines(LinesOf(c), LinesOf(search))

\* C16: when the search text is not a literal substring of the content but
\* the content has a contiguous run of lines equal to the lines of the search
\* text after stripping leading and trailing whitespace of each line, match
\* returns success=true with tier NORMALIZED and confidence 0.95, its span
\* covering exactly the first such run of lines; in a direct call and in a
\* run.
C16_StrippedLinesMatchNormalized ==
    [][/\ (pc = "match" /\ NormalizedCase(content, edit_in.search))
            => NormalizedMatch(content, edit_in.search, match_out')
       /\ (pc = "edit" /\ NormalizedCase(modified_content, edit_in'.search))
            => NormalizedMatch(modified_content, edit_in'.search, match_out')]_vars

\* C16's case: the content has two runs of lines equal to the search text up
\* to whitespace, the second after its first line, and match returned the
\* first
C16_FirstOfTwoRuns ==
    /\ pc = "matched"
    /\ NormalizedCase(content, edit_in.search)
    /\ RunOfLines(LinesOf(content), LinesOf(edit_in.search), 0)
    /\ RunOfLines(LinesOf(content), LinesOf(edit_in.search), 1)
    /\ match_out.tier = NORMALIZED
    /\ match_out.match_start = 0
    /\ match_out.match_end < Len(content)

\* the offsets in c where the window of lines line_start..line_end of the
\* edit begins and ends (lines counted from 1, the window reaching the end of
\* the content when line_end is absent)
WindowStart(c, edit) == SumLen(LinesOf(c), Max(edit.line_start[1], 1) - 1)
WindowEnd(c, edit) ==
    IF edit.line_end = NoInt THEN Len(c) ELSE SumLen(LinesOf(c), edit.line_end[1])

\* C17: when an edit supplies line_start (and optionally line_end), every
\* successful result of match for it has its span inside the lines
\* line_start..line_end (or end of file) of the content: an occurrence of the
\* search text outside that window is never matched. Stated for the edits
\* with a search text that is not empty.
C17_MatchStaysInLineWindow ==
    (/\ pc = "matched" /\ edit_in.line_start # NoInt /\ match_out.success
     /\ edit_in.search # <<>>)
    => /\ match_out.match_start >= WindowStart(content, edit_in)
       /\ match_out.match_end <= WindowEnd(content, edit_in)

\* C18: for every path listed in the result's backup_paths, the backup file
\* exists and its content is the content the original file had before the run
\* began, for any file list (one that names the same path more than once
\* included). Stated for the runs in which no read or write raised.
C18_BackupHoldsPreRunContent ==
    (pc = "done" /\ Started /\ exc = "") =>
        \A p \in DOMAIN result.backup_paths.vals :
            /\ Exists(disk, result.backup_paths.vals[p])
            /\ disk[result.backup_paths.vals[p]] = disk0[p]

\* every one of edits resolves, each against the content c as the edits
\* before it left it
AllResolve(c, edits) ==
    \A j \in 1..Len(edits) :
        Applies(Match(AfterEdits(c, edits, j - 1), edits[j], args.min_confidence,
                      has_rapidfuzz))

\* C19: with fail_fast=false failures stay within their file. A file that was
\* read and all of whose edits resolve is reported successful and, when
\* dry_run and check_only are false, is on disk with its edits made, whatever
\* the results of the files before it; every file of the list is processed,
\* its result at its place in the results; and what was written stays on
\* disk whichever files failed. Stated for the steps and runs in which no
\* read or write raised.
C19_FailuresStayInTheirFile ==
    [][(Started /\ ~args.fail_fast /\ exc' = "") =>
          /\ (pc = "write" /\ AllResolve(content, args.files[k].edits)) =>
                /\ file_result'.success
                /\ file_result'.path = Resolve(args.files[k].path)
                /\ file_result'.edits_applied = Len(args.files[k].edits)
                /\ (~args.dry_run /\ ~args.check_only) =>
                      disk'[path] = AfterEdits(content, args.files[k].edits,
                                               Len(args.files[k].edits))
          /\ pc = "filed" => pc' = (IF k = Len(args.files) THEN "finish" ELSE "file")
          /\ pc = "finish" =>
                /\ Len(results) = Len(args.files)
                /\ \A n \in 1..Len(results) :
                      results[n].path = Resolve(args.files[n].path)
                /\ result'.results = results
                /\ \A p \in DOMAIN transaction.modified_contents.vals :
                      disk'[p] = transaction.modified_contents.vals[p]]_vars

\* C19's case: a run with fail_fast=false over two files returned; the first
\* file failed, the second, after it, succeeded and was written
C19_WrittenAfterFailedFile ==
    /\ pc = "done" /\ Started /\ exc = ""
    /\ ~args.fail_fast /\ ~args.dry_run /\ ~args.check_only
    /\ Len(result.results) = 2
    /\ ~result.results[1].success
    /\ result.results[2].success
    /\ result.results[2].edits_applied > 0
    /\ result.results[2].path # result.results[1].path
    /\ disk[result.results[2].path] # disk0[result.results[2].path]
    /\ SameAsBefore(result.results[1].path)

\* C20: under check_only=true the matches are validated without a diff being
\* generated: every file result of such a run has an empty diff_preview,
\* however many edits resolved.
C20_CheckOnlyGeneratesNoDiff ==
    (pc = "done" /\ Started /\ args.check_only) =>
        \A n \in 1..Len(result.results) : result.results[n].diff_preview = NoDiff

\* the target files that are not on disk as they were when run was called
ModifiedTargets == {p \in TargetPaths : ~SameAsBefore(p)}

\* C21: in every result, files_modified is the number of target files whose
\* content on disk the run wrote and that are still modified when run
\* returns; it is 0 for a run that wrote nothing, dry_run and check_only runs
\* included. Stated for the runs in which no read or write raised.
C21_FilesModifiedCountsWrittenFiles ==
    (pc = "done" /\ Started /\ exc = "") =>
        result.files_modified = Cardinality(ModifiedTargets)

\* the paths of the first n files of the list, and of their backups
PathsUpTo(n) ==
    {Resolve(args.files[m].path) : m \in 1..n}
    \cup {BackupPath(Resolve(args.files[m].path)) : m \in 1..n}

\* C22: with fail_fast=true processing stops at the first file whose result
\* is unsuccessful. While the k-th file is processed no file after it was
\* read, backed up or written; when its result is unsuccessful the next step
\* of run rolls back (every path of modified_contents is written with its
\* original_contents entry, and nothing else is read or written) and returns
\* state rolled_back with exactly the results of the files up to and
\* including the failing one; after run returned nothing is processed.
\* Stated for the steps in which no write raised.
C22_FailFastStopsAtFirstFailure ==
    [][(Started /\ args.fail_fast /\ exc' = "") =>
          /\ pc # "done"
          /\ pc \in {"file", "edit", "write", "filed"} =>
                /\ Len(results) = k - 1
                /\ AllSuccess(results)
                /\ \A n \in 1..Len(io_log) : io_log[n][2] \in PathsUpTo(k)
          /\ (pc = "filed" /\ ~file_result.success) =>
                /\ pc' = "done"
                /\ result'.state = "rolled_back"
                /\ result'.results = Append(results, file_result)
                /\ Len(result'.results) = k
                /\ \A n \in 1..k :
                      result'.results[n].path = Resolve(args.files[n].path)
                /\ \A p \in DOMAIN transaction.modified_contents.vals :
                      disk'[p] = transaction.original_contents.vals[p]
                /\ DOMAIN disk' = DOMAIN disk
                /\ \A p \in DOMAIN disk :
                      p \notin DOMAIN transaction.modified_contents.vals
                          => disk'[p] = disk[p]
                /\ Len(io_log') = Len(io_log) + Len(transaction.modified_contents.keys)
                /\ \A n \in (Len(io_log) + 1)..Len(io_log') :
                      /\ io_log'[n][1] = "write"
                      /\ io_log'[n][2] \in DOMAIN transaction.modified_contents.vals]_vars

\* C22's case: a fail_fast run over two files returned rolled_back after its
\* first file failed; the second file has no result and was never read
C22_SecondFileNeverProcessed ==
    /\ pc = "done" /\ Started /\ args.fail_fast
    /\ result.state = "rolled_back"
    /\ Len(args.files) = 2
    /\ args.files[2].path # args.files[1].path
    /\ Len(args.files[2].edits) > 0
    /\ Len(result.results) = 1
    /\ \A n \in 1..Len(io_log) : io_log[n][2] # Resolve(args.files[2].path)

\* the keys of a dict
KeysOf(d) == {d.keys[n] : n \in 1..Len(d.keys)}

\* each key of a dict is listed once and has a value
DistinctKeys(d) == KeysOf(d) = DOMAIN d.vals /\ Cardinality(KeysOf(d)) = Len(d.keys)

\* the paths a transaction can be asked about: the files of the working
\* directory and their backups
KnownPaths == {Resolve(p) : p \in Paths} \cup {BackupPath(Resolve(p)) : p \in Paths}

\* the paths whose write by apply or rollback is in the history of the run
WrittenPaths ==
    {io_log[n][2] : n \in {m \in 1..Len(io_log) :
                              io_log[m][1] = "write" /\ io_log[m][2] \in TargetPaths}}

\* C23: in every state of a transaction each path of modified_contents and
\* each path of backup_paths is in original_contents; rollback of a path that
\* is not in original_contents returns false and leaves the disk as it is;
\* rollback_all returns the number of distinct paths of modified_contents,
\* which are the paths written when no write raised.
C23_WrittenPathsWereRead ==
    /\ KeysOf(transaction.modified_contents) \subseteq KeysOf(transaction.original_contents)
    /\ KeysOf(transaction.backup_paths) \subseteq KeysOf(transaction.original_contents)
    /\ DistinctKeys(transaction.original_contents)
    /\ DistinctKeys(transaction.backup_paths)
    /\ DistinctKeys(transaction.modified_contents)
    /\ \A p \in KnownPaths \ KeysOf(transaction.original_contents) :
          /\ ~RollbackOk(transaction, p)
          /\ RollbackDisk(transaction, disk, p) = disk
    /\ RollbackAllCount(transaction) = Cardinality(KeysOf(transaction.modified_contents))
    /\ (Started /\ exc = "") => WrittenPaths = KeysOf(transaction.modified_contents)

\* C23's case: one file was read, backed up and written and the other file
\* of the working directory was never read, so that rollback_all returns 1
C23_OneWrittenOneNeverRead ==
    /\ Started /\ exc = ""
    /\ KeysOf(transaction.modified_contents) = {Resolve("a")}
    /\ KeysOf(transaction.backup_paths) = {Resolve("a")}
    /\ ~Has(transaction.original_contents, Resolve("b"))
    /\ Exists(disk, Resolve("b"))
    /\ RollbackAllCount(transaction) = 1

\* how often the message e is in the list errs
Times(errs, e) == Cardinality({n \in 1..Len(errs) : errs[n] = e})

\* the number of the three conditions of check_all that hold
ConditionsHeld(present) ==
    (IF MERGE_HEAD \in present THEN 1 ELSE 0)
    + (IF {REBASE_MERGE, REBASE_APPLY} \cap present # {} THEN 1 ELSE 0)
    + (IF INDEX_LOCK \in present THEN 1 ELSE 0)

\* C24: check_all evaluates its three conditions without short-circuiting:
\* its error list holds one message for each condition that holds among
\* merge marker present, a rebase marker present (one message even when both
\* rebase indicators exist) and index lock present, and nothing else; the
\* check passed, and run went on, iff the list is empty, and otherwise run
\* returned the whole list in its summary.
C24_OneErrorPerCondition ==
    pc # "idle" =>
        /\ Len(CheckAll(git)) = ConditionsHeld(git)
        /\ Times(CheckAll(git), MERGE_ERROR) = IF MERGE_HEAD \in git THEN 1 ELSE 0
        /\ Times(CheckAll(git), REBASE_ERROR) =
               IF REBASE_MERGE \in git \/ REBASE_APPLY \in git THEN 1 ELSE 0
        /\ Times(CheckAll(git), LOCK_ERROR) = IF INDEX_LOCK \in git THEN 1 ELSE 0
        /\ (CheckAll(git) = <<>>) <=> (git = {})
        /\ (CheckAll(git) = <<>>) <=> ~(pc = "done" /\ ~Started)
        /\ CheckAll(git) # <<>> =>
               result.summary = "Safety check failed: " \o JoinStr(CheckAll(git), "; ")

\* C24's case: run returned from the safety check with a merge, both rebase
\* indicators and an index lock present, and its summary holds three messages
C24_AllMarkersPresent ==
    /\ pc = "done" /\ ~Started
    /\ git = Markers
    /\ result.summary = "Safety check failed: "
                            \o JoinStr(<<MERGE_ERROR, REBASE_ERROR, LOCK_ERROR>>, "; ")

\* the edit without its context texts and its line range
WithoutHints(edit) ==
    [edit EXCEPT !.context_before = NoText, !.context_after = NoText,
                 !.line_start = NoInt, !.line_end = NoInt]

C26_BlockSuccessIffApplied ==
    [][pc = "edit" =>
          (block_results'[Len(block_results')].success
              <=> /\ file_edits_applied' = file_edits_applied + 1
                  /\ block_results'[Len(block_results')].applied_text = edit_in'.replace)]_vars

\* C27: in every result of a run that passed the safety check and processed
\* all its files (fail_fast=false or no file failed), edits_applied +
\* edits_failed equals total_edits, also when a file failed before any of its
\* edits was resolved (not found, too large, unreadable, hash mismatch).
C27_AppliedPlusFailedIsTotal ==
    (pc = "done" /\ Started /\ exc = "" /\ Len(result.results) = Len(args.files)
        /\ (~args.fail_fast \/ AllSuccess(result.results)))
    => result.edits_applied + result.edits_failed = result.total_edits

\* C28: in every result returned by run the success flag and the state agree:
\* success=true implies that the state is checked, previewed or applied and
\* that edits_failed is 0; state applied implies success=true; state
\* rolled_back is reported only when fail_fast=true and a processed file
\* failed, and then success=false and can_apply=false.
C28_SuccessAgreesWithState ==
    pc = "done" =>
        /\ result.success =>
              /\ result.state \in {"checked", "previewed", "applied"}
              /\ result.edits_failed = 0
        /\ result.state = "applied" => result.success
        /\ result.state = "rolled_back" =>
              /\ Started /\ args.fail_fast
              /\ \E n \in 1..Len(result.results) : ~result.results[n].success
              /\ ~result.success
              /\ ~result.can_apply

\* C28's case: a dry run with fail_fast=true returned rolled_back after an
\* edit of its second file failed, the first file having succeeded
C28_DryRunRolledBack ==
    /\ pc = "done" /\ Started
    /\ args.dry_run /\ args.fail_fast
    /\ result.state = "rolled_back"
    /\ Len(result.results) = 2
    /\ result.results[1].success
    /\ result.edits_failed > 0
    /\ ~result.success /\ ~result.can_apply

\* the backup files on disk that were not there when run was called
CreatedBackups ==
    {p \in TargetPaths : Exists(disk, BackupPath(p)) /\ ~Exists(disk0, BackupPath(p))}

\* C29: when a run with create_backup=true ends by rolling back (state
\* rolled_back, or failed after an exception), every backup file the run
\* created is removed before run returns or is listed in the result's
\* backup_paths: no unreported backup file is left on disk.
C29_NoUnreportedBackup ==
    (pc = "done" /\ Started /\ args.create_backup
        /\ (result.state = "rolled_back" \/ exc # ""))
    => \A p \in CreatedBackups :
          /\ Has(result.backup_paths, p)
          /\ result.backup_paths.vals[p] = BackupPath(p)

\* new is old with the span from first to last (0-based, last excluded)
\* replaced by the text replace, and nothing else changed
ReplacesSpan(old, new, first, last, replace) ==
    /\ 0 <= first /\ first <= last /\ last <= Len(old)
    /\ Len(new) = Len(old) - (last - first) + Len(replace)
    /\ \A n \in 1..first : new[n] = old[n]
    /\ \A n \in 1..Len(replace) : new[first + n] = replace[n]
    /\ \A n \in (last + 1)..Len(old) : new[n - (last - first) + Len(replace)] = old[n]

\* the text sub occurs in s at the 0-based position n
OccursAt(s, sub, n) ==
    n >= 0 /\ n + Len(sub) <= Len(s) /\ SubSeq(s, n + 1, n + Len(sub)) = sub

\* C30: each applied edit replaces one span of the working content and
\* nothing else: the new content is old[:match_start] + replace +
\* old[match_end:] with 0 <= match_start <= match_end <= len(old); for an
\* exact match the span is the leftmost occurrence of the search text, later
\* occurrences staying where the replaced span left them. An edit that is not
\* applied leaves the working content as it is.
C30_AppliedEditReplacesOneSpan ==
    [][pc = "edit" =>
          IF file_edits_applied' = file_edits_applied + 1
          THEN /\ ReplacesSpan(modified_content, modified_content',
                               match_out'.match_start, match_out'.match_end,
                               edit_in'.replace)
               /\ match_out'.tier = EXACT =>
                     /\ OccursAt(modified_content, edit_in'.search,
                                 match_out'.match_start)
                     /\ match_out'.match_end
                            = match_out'.match_start + Len(edit_in'.search)
                     /\ \A n \in 0..(match_out'.match_start - 1) :
                           ~OccursAt(modified_content, edit_in'.search, n)
                     /\ \A n \in match_out'.match_end..Len(modified_content) :
                           OccursAt(modified_content, edit_in'.search, n)
                             => OccursAt(modified_content', edit_in'.search,
                                         n - Len(edit_in'.search)
                                           + Len(edit_in'.replace))
          ELSE modified_content' = modified_content]_vars

\* C30's case: the first edit of a file was applied on an exact match, the
\* content as read holding its search text twice; the second occurrence is
\* still in the working content
C30_SecondOccurrenceLeft ==
    /\ pc \in {"edit", "write"}
    /\ Len(block_results) = 1
    /\ block_results[1].match_result.tier = EXACT
    /\ block_results[1].applied_text # NoText
    /\ block_results[1].match_result.match_start = 0
    /\ OccursAt(content, edit_in.search, 1)
    /\ OccursAt(modified_content, edit_in.search, 1)
    /\ modified_content # content

====
